---- MODULE Spec2Model ----
(***************************************************************************)
(* Indentation detection for YAML documents (src/src/indent.rs).           *)
(*                                                                         *)
(* detect_indentation_slice(yaml) first drains the event parser            *)
(* (validate_yaml), then analyses the raw text (detect_from_text), which   *)
(* collects the leading-space count of every content line and reduces the  *)
(* counts to one unit (find_indentation_unit, gcd).                        *)
(*                                                                         *)
(* The event parser (crate::libyaml::parser::Parser) is an external        *)
(* collaborator: what it yields on each call of next() is a                *)
(* nondeterministic choice among an ordinary event, StreamEnd and an       *)
(* error.                                                                  *)
(***************************************************************************)
EXTENDS Integers, Sequences, FiniteSets

\* ---------------------------------------------------------------- bytes

SP == 32
TAB == 9
LF == 10
HASH == 35
LBRACKET == 91
RBRACKET == 93
LETTER == 97
\* A byte that occurs in no UTF-8 encoding.
BAD == 255

\* ---------------------------------------------------------------- bounds

\* Lines of a general text document, and the leading spaces of each.
MaxLines == 2
MaxIndent == 2
\* Content lines, nesting depth and unit of a block-nested document.
MaxNested == 3
MaxDepth == 3
MaxUnit == 10
\* Lines inside the brackets of a flow collection laid out over lines.
MaxInner == 1
\* Events the parser yields before it must end the stream or fail.
MaxEvents == 2

\* ------------------------------------------------- the documents analysed

Spaces(n) == [j \in 1..n |-> SP]

\* What follows the leading spaces of a line of a general text document:
\* nothing, content, a comment, a tab before content or before a comment,
\* flow-collection brackets, a byte that is not UTF-8.
Rests ==
    { <<>>, <<LETTER>>, <<HASH>>, <<TAB, LETTER>>, <<TAB, HASH>>,
      <<LBRACKET>>, <<RBRACKET>>, <<LBRACKET, RBRACKET>>, <<BAD>> }

TextLines == { Spaces(n) \o r : n \in 0..MaxIndent, r \in Rests }

RECURSIVE JoinLines(_)
JoinLines(ls) ==
    IF ls = <<>> THEN <<>>
    ELSE IF Len(ls) = 1 THEN ls[1]
    ELSE ls[1] \o <<LF>> \o JoinLines(Tail(ls))

TextDocs ==
    { JoinLines(ls) : ls \in UNION { [1..n -> TextLines] : n \in 0..MaxLines } }

\* Block-nested documents, indented k spaces per nesting level: every line
\* is content at some depth, or a comment at depth 1.
NestedLines(k) ==
    { Spaces(k * d) \o <<LETTER>> : d \in 0..MaxDepth }
        \cup { Spaces(k) \o <<HASH>> }

NestedDocs ==
    { JoinLines(ls) :
        ls \in UNION { [1..n -> NestedLines(k)] :
                         k \in 1..MaxUnit, n \in 1..MaxNested } }

\* Flow collections laid out over several lines: an opening bracket, the
\* lines inside, and the closing bracket on a line of its own.
FlowDocs ==
    { JoinLines(<<<<LBRACKET>>>> \o inner \o <<Spaces(n) \o <<RBRACKET>>>>) :
        inner \in UNION { [1..m -> TextLines] : m \in 0..MaxInner },
        n \in 0..MaxIndent }

Docs == TextDocs \cup NestedDocs \cup FlowDocs

\* The documents of at most one line.
ShortDocs == { JoinLines(<<l>>) : l \in TextLines \cup NestedLines(1) }

\* ------------------------------------------------------ str and slice helpers

\* std::str::from_utf8 on the bytes of the documents above: the ASCII bytes
\* are one-byte encodings and BAD starts no encoding.
Utf8Ok(bytes) == \A j \in 1..Len(bytes) : bytes[j] < 128

\* str::lines(): the text split at every line feed; what follows the last
\* line feed is a line when it is not empty.
Lines(text) ==
    LET feeds == { j \in 1..Len(text) : text[j] = LF }
        \* The end of the n-th segment: the n-th line feed, or the end of
        \* the text.
        End(n) ==
            IF n > Cardinality(feeds) THEN Len(text) + 1
            ELSE CHOOSE p \in feeds :
                     Cardinality({ q \in feeds : q < p }) = n - 1
        Segment(n) ==
            SubSeq(text, IF n = 1 THEN 1 ELSE End(n - 1) + 1, End(n) - 1)
        last == Cardinality(feeds) + 1
        count == IF Segment(last) = <<>> THEN last - 1 ELSE last
    IN  [n \in 1..count |-> Segment(n)]

\* The ASCII characters of char::is_whitespace.
Whitespace == {9, 10, 11, 12, 13, 32}

\* The length of the longest prefix of line whose characters are all in
\* chars.
PrefixLen(line, chars) ==
    LET others == { j \in 1..Len(line) : line[j] \notin chars }
    IN  IF others = {} THEN Len(line)
        ELSE (CHOOSE j \in others : \A i \in others : j <= i) - 1

\* str::trim_start().
TrimStart(line) ==
    SubSeq(line, PrefixLen(line, Whitespace) + 1, Len(line))

\* str::trim_start_matches(c).
TrimStartMatches(line, c) ==
    SubSeq(line, PrefixLen(line, {c}) + 1, Len(line))

\* str::starts_with(c).
StartsWith(line, c) == line # <<>> /\ Head(line) = c

\* slice::get(i) == Some(&c), i counted from 0.
GetIs(line, i, c) == i + 1 <= Len(line) /\ line[i + 1] = c

\* ------------------------------------------------------------------ gcd

\* gcd with the two assignments of its loop in the wrong order and no
\* temporary: a takes b, then b takes a % b, which is 0.
gcd_AssignmentsSwapped(a, b) == IF b # 0 THEN b ELSE a

RECURSIVE gcd(_, _)
gcd(a, b) == IF b # 0 THEN gcd(b, a % b) ELSE a

\* -------------------------------------------------- find_indentation_unit

AbsDiff(a, b) == IF a >= b THEN a - b ELSE b - a

\* sort_unstable().
RECURSIVE Insert(_, _)
Insert(x, s) ==
    IF s = <<>> THEN <<x>>
    ELSE IF x <= Head(s) THEN <<x>> \o s
    ELSE <<Head(s)>> \o Insert(x, Tail(s))

RECURSIVE SortUnstable(_)
SortUnstable(s) == IF s = <<>> THEN <<>> ELSE Insert(Head(s), SortUnstable(Tail(s)))

\* dedup(): consecutive equal elements collapse to one.
RECURSIVE Dedup(_)
Dedup(s) ==
    IF Len(s) <= 1 THEN s
    ELSE IF s[1] = s[2] THEN Dedup(Tail(s))
    ELSE <<s[1]>> \o Dedup(Tail(s))

\* The filter written l >= 0.
UniqueLevels_KeepsZero(levels) ==
    Dedup(SortUnstable(SelectSeq(levels, LAMBDA l : l >= 0)))

UniqueLevels(levels) ==
    Dedup(SortUnstable(SelectSeq(levels, LAMBDA l : l > 0)))

\* The walk over the levels in document order, from prev_level.
RECURSIVE StepDifferences(_, _)
StepDifferences(levels, prev_level) ==
    IF levels = <<>> THEN <<>>
    ELSE LET level == Head(levels)
             diff == AbsDiff(level, prev_level)
         IN  (IF level # prev_level /\ diff > 0 THEN <<diff>> ELSE <<>>)
             \o StepDifferences(Tail(levels), level)

Differences(levels) == StepDifferences(levels, 0) \o UniqueLevels(levels)

NoUnit(via) == [some |-> FALSE, unit |-> 0, via |-> via]

\* The reduction loop never entered: the first difference is the result.
GcdLoop_FirstOnly(result, diffs) == result

\* The reduction loop, left once the running value is 1.
RECURSIVE GcdLoop(_, _)
GcdLoop(result, diffs) ==
    IF diffs = <<>> THEN result
    ELSE LET r == gcd(result, Head(diffs))
         IN  IF r = 1 THEN r ELSE GcdLoop(r, Tail(diffs))

\* The reduction applied to the levels as collected, with neither the filter
\* of the zero levels nor the check of a result of 0.
FindIndentationUnit_Unnormalized(levels) ==
    IF levels = <<>> THEN NoUnit("levels_empty")
    ELSE [some |-> TRUE, unit |-> GcdLoop(levels[1], Tail(levels)),
          via |-> "gcd"]

FindIndentationUnit(levels) ==
    IF levels = <<>> THEN NoUnit("levels_empty")
    ELSE IF UniqueLevels(levels) = <<>> THEN NoUnit("unique_levels_empty")
    ELSE LET differences == Differences(levels)
         IN  IF differences = <<>> THEN NoUnit("differences_empty")
             ELSE LET result == GcdLoop(differences[1], Tail(differences))
                  IN  IF result = 0 THEN NoUnit("result_zero")
                      ELSE [some |-> TRUE, unit |-> result, via |-> "gcd"]

\* ---------------------------------------------------------- detect_from_text

\* The subtraction from line.len() left out.
LeadingSpaces_TrimmedLen(line) == Len(TrimStartMatches(line, SP))

LeadingSpaces(line) == Len(line) - Len(TrimStartMatches(line, SP))

\* The tab check without its second case, the tab after the leading spaces.
ScanLineStep_LeadingTabOnly(line) ==
    LET trimmed == TrimStart(line)
    IN  IF trimmed = <<>> \/ StartsWith(trimmed, HASH) THEN "continue"
        ELSE IF StartsWith(line, TAB) THEN "tab_error"
        ELSE "push"

\* The tab check made before blank and comment lines are skipped.
ScanLineStep_TabCheckFirst(line) ==
    LET trimmed == TrimStart(line)
        leading_spaces == Len(line) - Len(TrimStartMatches(line, SP))
    IN  IF \/ StartsWith(line, TAB)
           \/ (leading_spaces > 0 /\ GetIs(line, leading_spaces, TAB))
        THEN "tab_error"
        ELSE IF trimmed = <<>> \/ StartsWith(trimmed, HASH) THEN "continue"
        ELSE "push"

\* One iteration of the loop over the lines: the line is skipped, ends the
\* call with the tab error, or contributes its level.
ScanLineStep(line) ==
    LET trimmed == TrimStart(line)
        leading_spaces == LeadingSpaces(line)
    IN  IF trimmed = <<>> \/ StartsWith(trimmed, HASH) THEN "continue"
        ELSE IF \/ StartsWith(line, TAB)
                \/ (leading_spaces > 0 /\ GetIs(line, leading_spaces, TAB))
             THEN "tab_error"
        ELSE "push"

\* The loop over the lines as a whole: the levels collected, or the tab
\* error.
RECURSIVE ScanLines(_, _)
ScanLines(ls, levels) ==
    IF ls = <<>> THEN [tab |-> FALSE, levels |-> levels]
    ELSE LET step == ScanLineStep(Head(ls))
         IN  IF step = "tab_error" THEN [tab |-> TRUE, levels |-> levels]
             ELSE IF step = "push"
                  THEN ScanLines(Tail(ls), Append(levels, LeadingSpaces(Head(ls))))
             ELSE ScanLines(Tail(ls), levels)

\* ------------------------------------------------------------ validate_yaml

\* The parser's error dropped instead of returned.
ValidateYamlStep_ErrorSwallowed(ev) ==
    IF ev \in {"Error", "StreamEnd"} THEN "break" ELSE "loop"

\* The loop left on the first event, whatever it is.
ValidateYamlStep_BreakOnAnyEvent(ev) ==
    IF ev = "Error" THEN "return_err" ELSE "break"

\* What one turn of the loop does with what parser.next() gave.
ValidateYamlStep(ev) ==
    IF ev = "Error" THEN "return_err"
    ELSE IF ev = "StreamEnd" THEN "break"
    ELSE "loop"

\* ------------------------------------------------------------------ results

Pending == [tag |-> "Pending", some |-> FALSE, spaces |-> 0, via |-> ""]
Err(kind) == [tag |-> "Err", some |-> FALSE, spaces |-> 0, via |-> kind]
Ok(u) == [tag |-> "Ok", some |-> u.some, spaces |-> u.unit, via |-> u.via]

\* detect_from_text as a function of the bytes.
DetectFromText(bytes) ==
    IF ~Utf8Ok(bytes) THEN Err("utf8")
    ELSE LET scan == ScanLines(Lines(bytes), <<>>)
         IN  IF scan.tab THEN Err("tab")
             ELSE Ok(FindIndentationUnit(scan.levels))

\* ------------------------------------------------------------------- state

VARIABLES
    yaml,           \* the bytes given to detect_indentation_slice
    pc,             \* where the call is
    event,          \* what the parser's last next() gave
    pulled,         \* calls of next() on the parser of validate_yaml, which
                    \* is dropped when validate_yaml returns
    lines,          \* the lines the loop of detect_from_text has yet to see
    indent_levels,  \* the levels collected so far
    result          \* what the call returned

vars == <<yaml, pc, event, pulled, lines, indent_levels, result>>

Start(docs) ==
    /\ yaml \in docs
    /\ pc = "validate_yaml"
    /\ event = "None"
    /\ pulled = 0
    /\ lines = <<>>
    /\ indent_levels = <<>>
    /\ result = Pending

Init == Start(Docs)

\* The parser yields StreamEnd or an error at the latest on its MaxEvents-th
\* call.
ParserYields ==
    IF pulled + 1 >= MaxEvents THEN {"StreamEnd", "Error"}
    ELSE {"Event", "StreamEnd", "Error"}

\* validate_yaml: one turn of the loop.
ParserNext ==
    /\ pc = "validate_yaml"
    /\ \E ev \in ParserYields :
         /\ event' = ev
         /\ LET step == ValidateYamlStep(ev)
            IN  /\ pulled' = IF step = "loop" THEN pulled + 1 ELSE 0
                /\ pc' = CASE step = "return_err" -> "done"
                           [] step = "break" -> "detect_from_text"
                           [] OTHER -> "validate_yaml"
                /\ result' = IF step = "return_err" THEN Err("structural")
                             ELSE result
    /\ UNCHANGED <<yaml, lines, indent_levels>>

\* detect_from_text: the decoding, and the start of the loop.
Decode ==
    /\ pc = "detect_from_text"
    /\ IF Utf8Ok(yaml)
       THEN /\ lines' = Lines(yaml)
            /\ pc' = "lines"
            /\ result' = result
       ELSE /\ lines' = lines
            /\ pc' = "done"
            /\ result' = Err("utf8")
    /\ UNCHANGED <<yaml, event, pulled, indent_levels>>

\* detect_from_text: one iteration of the loop over the lines.
ScanLine ==
    /\ pc = "lines"
    /\ lines # <<>>
    /\ LET step == ScanLineStep(Head(lines))
       IN  /\ pc' = IF step = "tab_error" THEN "done" ELSE "lines"
           /\ result' = IF step = "tab_error" THEN Err("tab") ELSE result
           /\ indent_levels' =
                 IF step = "push"
                 THEN Append(indent_levels, LeadingSpaces(Head(lines)))
                 ELSE indent_levels
    /\ lines' = Tail(lines)
    /\ UNCHANGED <<yaml, event, pulled>>

\* detect_from_text: after the loop, find_indentation_unit and the wrapping
\* of its value.
FindUnit ==
    /\ pc = "lines"
    /\ lines = <<>>
    /\ result' = Ok(FindIndentationUnit(indent_levels))
    /\ pc' = "done"
    /\ UNCHANGED <<yaml, event, pulled, lines, indent_levels>>

Next == ParserNext \/ Decode \/ ScanLine \/ FindUnit

Spec == Init /\ [][Next]_vars

\* The call runs on one thread and takes its next step whenever it has one.
LiveSpec == Start(ShortDocs) /\ [][Next]_vars /\ WF_vars(Next)

\* --------------------------------------------- the vocabulary of the claims

\* The documented range of a detected indentation.
MinSpaces == 2
MaxSpaces == 9

Returned == pc = "done"
GatePassed == event = "StreamEnd"
ReturnedNone == Returned /\ result.tag = "Ok" /\ ~result.some
ReturnedSome(k) == Returned /\ result.tag = "Ok" /\ result.some /\ result.spaces = k

\* The lines of the document, as the text reads.
DocLines == Lines(yaml)

\* The number of space characters a line starts with.
SpaceCount(l) ==
    IF \A j \in 1..Len(l) : l[j] = SP THEN Len(l)
    ELSE (CHOOSE n \in 1..Len(l) :
              l[n] # SP /\ \A j \in 1..(n - 1) : l[j] = SP) - 1

\* A content line: its first character that is not whitespace exists and is
\* not '#'. Every other line is blank or a comment.
ContentLine(l) ==
    \E j \in 1..Len(l) :
        /\ l[j] \notin {SP, TAB, HASH}
        /\ \A i \in 1..(j - 1) : l[i] \in {SP, TAB}

\* A line that begins with a tab, or has a tab right after its leading spaces.
TabIndented(l) == SpaceCount(l) < Len(l) /\ l[SpaceCount(l) + 1] = TAB

ContentLines == SelectSeq(DocLines, ContentLine)
LevelsOf(cl) == [j \in DOMAIN cl |-> SpaceCount(cl[j])]
ContentLevels == LevelsOf(ContentLines)
NonZero(lv) == { lv[j] : j \in DOMAIN lv } \ {0}
NonZeroLevels == NonZero(ContentLevels)

\* Every content line (cl, at the levels lv) is indented a multiple of k and
\* every nesting increase, from the implicit level 0 on, is exactly k; no
\* content line holds a tab.
Regular(k, cl, lv) ==
    \A j \in DOMAIN cl :
        /\ \A i \in DOMAIN cl[j] : cl[j][i] # TAB
        /\ lv[j] % k = 0
        /\ LET prev == IF j = 1 THEN 0 ELSE lv[j - 1]
           IN  lv[j] > prev => lv[j] - prev = k

IndentedBy(k) ==
    Utf8Ok(yaml) /\ Regular(k, ContentLines, ContentLevels)

\* The greatest number that divides every member of a set of positive numbers.
SetGcd(S) ==
    LET max == CHOOSE m \in S : \A x \in S : x <= m
        Divides(d) == \A x \in S : x % d = 0
    IN  CHOOSE d \in 1..max :
            Divides(d) /\ \A e \in 1..max : Divides(e) => e <= d

Reverse(s) == [j \in DOMAIN s |-> s[Len(s) + 1 - j]]

\* The bytes of the document that are neither spaces nor line feeds.
Tokens == SelectSeq(yaml, LAMBDA b : b \notin {SP, LF})
Opened(j) == Cardinality({ i \in 1..j : Tokens[i] = LBRACKET })
Closed(j) == Cardinality({ i \in 1..j : Tokens[i] = RBRACKET })

\* The document is one flow collection: it opens with a bracket, which closes
\* with the last character, and holds nothing but brackets and content.
FlowDocument ==
    /\ Tokens # <<>>
    /\ \A j \in DOMAIN Tokens : Tokens[j] \in {LBRACKET, RBRACKET, LETTER}
    /\ Tokens[1] = LBRACKET
    /\ \A j \in 1..(Len(Tokens) - 1) : Opened(j) > Closed(j)
    /\ Opened(Len(Tokens)) = Closed(Len(Tokens))

\* A block document of plain content: nothing but content characters,
\* spaces and line feeds.
PlainDocument == \A j \in 1..Len(yaml) : yaml[j] \in {SP, LF, LETTER}

\* A flow collection laid out over lines: the opening bracket on the first
\* line, the closing bracket alone on the last, and between them lines of
\* content and comments.
BracketedDocument ==
    LET ls == DocLines
    IN  /\ Len(ls) >= 2
        /\ ls[1] = <<LBRACKET>>
        /\ TrimStart(ls[Len(ls)]) = <<RBRACKET>>
        /\ \A j \in 2..(Len(ls) - 1) : \A i \in 1..Len(ls[j]) :
               ls[j][i] \in {SP, TAB, HASH, LETTER}

\* ------------------------------------------------------------------- claims

C2_AnyTabLineIsError ==
    (Returned /\ GatePassed /\ Utf8Ok(yaml) /\ BracketedDocument
        /\ \E j \in DOMAIN DocLines : TabIndented(DocLines[j]))
    => result = Err("tab")

\* C2, amended: when any content line (not blank, not a comment) of a decoded
\* text that passed the gate begins with a tab or has a tab right after its
\* leading spaces, the call returns the tab error; and the tab error is
\* returned for no other text.
C2_TabContentLineIsError ==
    (Returned /\ GatePassed /\ Utf8Ok(yaml))
    => ((\E j \in DOMAIN ContentLines : TabIndented(ContentLines[j]))
            <=> result = Err("tab"))

\* The tab error for a content line with a tab after its spaces, which comes
\* after a line that contributed a level.
C2_Witness ==
    /\ Returned /\ GatePassed /\ result = Err("tab")
    /\ indent_levels # <<>>
    /\ \E j \in DOMAIN ContentLines :
         TabIndented(ContentLines[j]) /\ SpaceCount(ContentLines[j]) > 0

\* C3: once the parser signalled an error the call has returned the
\* structural error and the analyzer has not run; the analyzer runs, and any
\* other result is returned, only after StreamEnd was seen.
C3_GateBeforeAnalyzer ==
    /\ event = "Error" =>
         /\ Returned /\ result = Err("structural")
         /\ lines = <<>> /\ indent_levels = <<>>
    /\ (pc \in {"detect_from_text", "lines"}
          \/ (Returned /\ result # Err("structural"))) => GatePassed
    /\ (lines # <<>> \/ indent_levels # <<>>) => GatePassed
    /\ pc = "validate_yaml" => result = Pending

\* A document that is malformed, tab-indented and not UTF-8 returns the
\* structural error.
C3_Witness ==
    /\ Returned /\ event = "Error" /\ result = Err("structural")
    /\ ~Utf8Ok(yaml)
    /\ \E j \in DOMAIN ContentLines : TabIndented(ContentLines[j])

C5_BlankAndCommentLinesIgnored ==
    (Returned /\ GatePassed /\ Utf8Ok(yaml))
    => result = DetectFromText(JoinLines(ContentLines))

\* A unit was detected in a text with an indented comment line that holds a
\* tab.
C5_Witness ==
    /\ Returned /\ GatePassed /\ result.some
    /\ \E j \in DOMAIN DocLines :
         /\ ~ContentLine(DocLines[j])
         /\ TabIndented(DocLines[j])
         /\ SpaceCount(DocLines[j]) > 0

\* C6, for the block documents of plain content: a detected indentation is
\* between 2 and 9 spaces.
C6_SpacesInDocumentedRange ==
    (Returned /\ GatePassed /\ PlainDocument /\ result.some)
    => (MinSpaces <= result.spaces /\ result.spaces <= MaxSpaces)

C8_UnitAtLeastOne ==
    /\ FindIndentationUnit(indent_levels).some
         => FindIndentationUnit(indent_levels).unit >= 1
    /\ result.some => result.spaces >= 1

\* A unit was returned for levels that include 0.
C8_Witness ==
    /\ Returned /\ result.some /\ result.spaces >= 1
    /\ \E j \in DOMAIN indent_levels : indent_levels[j] = 0

NoNextAfterEnd ==
    event \in {"StreamEnd", "Error"} => (event' = event /\ pulled' = pulled)

\* validate_yaml returns on StreamEnd (Ok, and the analyzer starts) and on an
\* error (the structural error), and on nothing else.
ReturnsOnEnd ==
    (pc = "validate_yaml" /\ pc' # "validate_yaml")
    => /\ event' \in {"StreamEnd", "Error"}
       /\ event' = "StreamEnd" <=> (pc' = "detect_from_text" /\ result' = Pending)
       /\ event' = "Error" <=> (pc' = "done" /\ result' = Err("structural"))

\* C10: validate_yaml asks the parser for no event after StreamEnd or an
\* error, returns Ok only when the last event was StreamEnd and the error
\* when it was an error, and always returns.
C10_ValidateStopsAtFirstEnd ==
    /\ [][NoNextAfterEnd]_vars
    /\ [][ReturnsOnEnd]_vars
    /\ [](pc = "validate_yaml" => event \in {"None", "Event"})
    /\ <>(pc # "validate_yaml")

\* validate_yaml is still in its loop after an ordinary event.
C10_Witness == pc = "validate_yaml" /\ event = "Event" /\ pulled >= 1

====
